---- MODULE Spec2Model ----
(***************************************************************************)
(* Song lifecycle of the music service: the Song table, and the three      *)
(* request handlers that touch it (POST /create_song, GET /check_status,   *)
(* POST /receive_song), each split at the points where it talks to the     *)
(* database or to an external provider, so that concurrent requests        *)
(* interleave the way the request-handling pool lets them.                 *)
(***************************************************************************)
EXTENDS Integers, Sequences, FiniteSets, Bags, TLC

\* ------------------------------------------------------------------ bounds
MaxReq == 2          \* requests the server handles at the same time

\* the task ids the generation provider hands out
Tasks == {1, 2}

\* ------------------------------------------------------------------ values
NONE == "None"                       \* Python None / SQL NULL
SunoURLs == {"suno/a.mp3", "suno/b.mp3"}      \* transient provider URLs
DurableURLs == {"cdn/1.mp3", "cdn/2.mp3"}     \* secure_url values of the storage provider

\* Python truthiness of an optional string
Truthy(x) == x # NONE /\ x # ""

\* the JSON bodies of POST /create_song
CreateRequests ==
    { [title |-> "Dawn", genre |-> "lofi", mood |-> "hopeful", theme |-> "sunrise",
       style |-> style] : style \in {"lofi", "instrumental", "Instrumental"} }

\* str.lower() on the styles above
Lower(style) == IF style = "Instrumental" THEN "instrumental" ELSE style

\* create_song: the style and the instrumental flag it hands to generate_song
RouteStyle(request) ==
    IF Lower(request.style) = "instrumental"
    THEN [style |-> request.genre, instrumental |-> TRUE]
    ELSE [style |-> request.style, instrumental |-> FALSE]

\* generate_music: the instrumental flag and the style of the payload it
\* posts to Suno, None standing for a payload without a style key
Payload(style, instrumental) ==
    [ instrumental |-> instrumental,
      style |-> IF Truthy(style) /\ Lower(style) # "instrumental" THEN style ELSE NONE ]

\* the payload a request to POST /create_song makes generate_music post
SunoPayload(request) ==
    Payload(RouteStyle(request).style, RouteStyle(request).instrumental)

\* the keyword arguments of generate_music that a request comes to
SongArgs(request) ==
    [ title |-> request.title, lyrics |-> "la la", style |-> RouteStyle(request).style,
      mood |-> request.mood, theme |-> request.theme ]

\* the keyword arguments generate_music stores on a new Song
SongInputs == { SongArgs(request) : request \in CreateRequests }

NoInput == [title |-> "", lyrics |-> "", style |-> "", mood |-> "", theme |-> ""]

\* ------------------------------------------------------------------ Song
SongStatus == {"pending", "processing", "completed", "failed"}

\* Song.__init__ as generate_music calls it; the columns the constructor does
\* not set take the column default on insert.
Song(id, task_id, args, status) ==
    [ id |-> id, task_id |-> task_id,
      title |-> args.title, lyrics |-> args.lyrics, style |-> args.style,
      mood |-> args.mood, theme |-> args.theme,
      audio_url |-> NONE, suno_url |-> NONE, cloudinary_url |-> NONE,
      status |-> status, retry_count |-> 0, error_message |-> NONE ]

\* the result of .first() when no row matches
NoSong == Song(0, 0, NoInput, "pending")

\* ------------------------------------------------------------------ state
VARIABLES
    songs,      \* the song table, in insertion order; id is the position
    handlers,   \* the requests in flight: where each handler stands, and its locals
    uploader,   \* a call of upload_audio_to_cloudinary_from_buffer in progress
    poller      \* a call of poll_for_audio in progress

vars == <<songs, handlers, uploader, poller>>

\* Song.query.filter_by(task_id=...).first()
QueryFirst(rows, task_id) ==
    IF \E i \in 1..Len(rows) : rows[i].task_id = task_id
    THEN rows[CHOOSE i \in 1..Len(rows) :
                /\ rows[i].task_id = task_id
                /\ \A j \in 1..(i - 1) : rows[j].task_id # task_id]
    ELSE NoSong

\* task_id = db.Column(..., unique=True): the insert is refused when a row
\* with this task_id is already committed
UniqueViolation(rows, task_id) ==
    \E i \in 1..Len(rows) : rows[i].task_id = task_id

\* InsertSong on a column that was not declared unique
InsertSongNotUnique(rows, task_id, args) ==
    Append(rows, Song(Len(rows) + 1, task_id, args, "processing"))

\* db.session.add(song); db.session.commit() of a new row; a refused insert
\* raises and leaves the table as it was
InsertSong(rows, task_id, args) ==
    IF UniqueViolation(rows, task_id)
    THEN rows
    ELSE Append(rows, Song(Len(rows) + 1, task_id, args, "processing"))

\* CommitUpdate, had the UPDATE no WHERE clause on the id
CommitUpdateAllRows(rows, loaded, new) ==
    [ i \in 1..Len(rows) |->
        [ c \in DOMAIN rows[i] |->
            IF new[c] # loaded[c] THEN new[c] ELSE rows[i][c] ] ]

\* db.session.commit() of a loaded row: the UPDATE carries the columns whose
\* value differs from the loaded one, and leaves the others as committed
CommitUpdate(rows, loaded, new) ==
    [ rows EXCEPT ![loaded.id] =
        [ c \in DOMAIN rows[loaded.id] |->
            IF new[c] # loaded[c] THEN new[c] ELSE rows[loaded.id][c] ] ]

\* ------------------------------------------------------------------ locals
NoLocals ==
    [ op |-> "idle", task_id |-> 0, audio_url |-> NONE, song |-> NoSong, args |-> NoInput ]

Locals(op, task_id, audio_url, song, args) ==
    [ op |-> op, task_id |-> task_id, audio_url |-> audio_url, song |-> song, args |-> args ]

\* jsonify(...), status, with the request it answers: the endpoint, the task
\* id the request or the response names, the audio URL the request carried
Response(op, task_id, audio_url, code, error, status, url) ==
    [ op |-> op, task_id |-> task_id, audio_url |-> audio_url,
      code |-> code, error |-> error, status |-> status, url |-> url ]

NoResponse == Response("idle", 0, NONE, 0, "", "", NONE)

\* no call of upload_audio_to_cloudinary_from_buffer in progress
NoUpload == [ pc |-> "idle", attempt |-> 0, value |-> NONE ]

\* no call of poll_for_audio in progress
NoPoll == [ pc |-> "idle", retries |-> 0, attempt |-> 0, seen |-> <<>>, value |-> NONE ]

Init ==
    /\ songs = <<>>
    /\ handlers = EmptyBag
    /\ uploader = NoUpload
    /\ poller = NoPoll

\* What a step of a handler comes to: the table it leaves, where the handler
\* stands afterwards and with which locals, and the response it sends, if any.
\* a handler returns: its locals die with the request, the worker is free
Return(rows, response) ==
    [ songs |-> rows, pc |-> "idle", locals |-> NoLocals, response |-> response ]

\* a handler goes on to its next step: nothing is sent yet
Goto(rows, label, locals) ==
    [ songs |-> rows, pc |-> label, locals |-> locals, response |-> NoResponse ]

\* what the outcomes in a set do to the state (the responses leave it alone)
Effects(outcomes) ==
    { [songs |-> o.songs, pc |-> o.pc, locals |-> o.locals] : o \in outcomes }

\* a handler in flight
Handler(pc, locals) == [pc |-> pc, locals |-> locals]

\* the handlers in flight after a step with effect e has run on top of rest
Continue(rest, e) ==
    IF e.pc = "idle" THEN rest ELSE rest (+) SetToBag({Handler(e.pc, e.locals)})

\* the pool has a worker to take another request
Free == BagCardinality(handlers) < MaxReq

\* a request arrives and its handler takes its first step, with effect e
Start(e) ==
    /\ Free
    /\ songs' = e.songs
    /\ handlers' = Continue(handlers, e)
    /\ UNCHANGED <<uploader, poller>>

\* handler h takes its next step, with effect e
Step(h, e) ==
    /\ songs' = e.songs
    /\ handlers' = Continue(handlers (-) SetToBag({h}), e)
    /\ UNCHANGED <<uploader, poller>>

\* the handlers in flight that stand at label
At(label) == { h \in BagToSet(handlers) : h.pc = label }

\* db.session.commit() expires the loaded Song: only its identity stays
Expired(song) == [NoSong EXCEPT !.id = song.id]

\* ------------------------------------------------------------------ create
\* What POST {base}/api/v1/generate can answer: a network failure, a body
\* that is not JSON, a JSON array, or a JSON object with a code and a data
\* field (absent, an object, a list) that holds the task id under some key,
\* or with the task id at top level.
GenAnswer(net, http, body, code, shape, key, top, tid) ==
    [ net |-> net, http |-> http, body |-> body, code |-> code,
      shape |-> shape, key |-> key, top |-> top, tid |-> tid ]

GenerateAnswers ==
    { GenAnswer(TRUE, 0, "text", 0, "absent", "none", "none", 0) }
    \cup { GenAnswer(FALSE, h, b, 0, "absent", "none", "none", 0) :
             h \in {200, 500}, b \in {"text", "array"} }
    \cup { GenAnswer(FALSE, 500, "object", 200, "dict", "taskId", "none", t) : t \in Tasks }
    \cup { GenAnswer(FALSE, 200, "object", c, "dict", "taskId", "none", t) :
             c \in {0, 400}, t \in Tasks }
    \cup { GenAnswer(FALSE, 200, "object", 200, s, k, p, t) :
             s \in {"absent", "dict", "list", "emptylist"},
             k \in {"taskId", "task_id", "id", "none"},
             p \in {"taskId", "task_id", "none"},
             t \in Tasks }

\* the task id generate_music finds in an accepted answer, 0 when it finds none
SunoTaskId(a) ==
    LET top == IF a.top \in {"taskId", "task_id"} THEN a.tid ELSE 0
    IN  CASE a.shape = "dict" ->
               IF a.key \in {"taskId", "task_id"} THEN a.tid ELSE top
          [] a.shape = "list" ->
               IF a.key \in {"taskId", "task_id", "id"} THEN a.tid ELSE top
          [] OTHER -> 0

\* the provider took the task: generate_music goes on to persist and to return 202
Accepted(task_id) == [status |-> 202, error |-> "", task_id |-> task_id]

\* GenerateMusic, had it taken Suno's HTTP status for irrelevant
GenerateMusicAnyStatus(a) ==
    CASE a.net -> [status |-> 500, error |-> "Unexpected error", task_id |-> 0]
      [] a.body = "text" ->
           [status |-> 502, error |-> "Invalid response from Suno", task_id |-> 0]
      [] a.body = "array" ->
           [status |-> 500, error |-> "Unexpected error", task_id |-> 0]
      [] a.code # 200 ->
           [status |-> 502, error |-> "Suno error", task_id |-> 0]
      [] SunoTaskId(a) = 0 ->
           [status |-> 502, error |-> "Suno did not return a recognizable task id",
            task_id |-> 0]
      [] OTHER -> Accepted(SunoTaskId(a))

\* generate_music up to the point where it persists: the status it returns
\* there and the task id
GenerateMusic(a) ==
    CASE a.net -> [status |-> 500, error |-> "Unexpected error", task_id |-> 0]
      [] a.body = "text" ->
           [status |-> 502, error |-> "Invalid response from Suno", task_id |-> 0]
      [] a.body = "array" ->
           [status |-> 500, error |-> "Unexpected error", task_id |-> 0]
      [] a.http # 200 \/ a.code # 200 ->
           [status |-> 502, error |-> "Suno error", task_id |-> 0]
      [] SunoTaskId(a) = 0 ->
           [status |-> 502, error |-> "Suno did not return a recognizable task id",
            task_id |-> 0]
      [] OTHER -> Accepted(SunoTaskId(a))

GenerateResults == { GenerateMusic(a) : a \in GenerateAnswers }

\* ---- extract_task_id
\* the keys extract_task_id probes
KeySet == {"id", "task_id", "taskId", "taskID"}

\* a JSON object as far as these keys go: the value under each, 0 for a key
\* that is absent or holds a falsy value
NoKeys == [key \in KeySet |-> 0]

\* an argument of extract_task_id: None, something that is not a mapping, or
\* a mapping with what it holds at top level, under data (absent, an object,
\* or a list of objects) and under metadata (absent or an object)
Item(kind, top, dataKind, elems, metaKind, meta) ==
    [ kind |-> kind, top |-> top, dataKind |-> dataKind, elems |-> elems,
      metaKind |-> metaKind, meta |-> meta ]

\* for key in ("id", "task_id", "taskId", "taskID"): the first truthy value
ProbeKeys(m) ==
    IF m["id"] # 0 THEN m["id"]
    ELSE IF m["task_id"] # 0 THEN m["task_id"]
    ELSE IF m["taskId"] # 0 THEN m["taskId"]
    ELSE m["taskID"]

\* for candidate in data_field: the same probes on every element in turn
RECURSIVE ProbeList(_)
ProbeList(elems) ==
    IF elems = <<>> THEN 0
    ELSE IF ProbeKeys(Head(elems)) # 0 THEN ProbeKeys(Head(elems))
    ELSE ProbeList(Tail(elems))

\* extract_task_id, had it looked under metadata before it looked under data
ExtractTaskIdMetaFirst(item) ==
    IF item.kind # "dict" THEN 0
    ELSE IF ProbeKeys(item.top) # 0 THEN ProbeKeys(item.top)
    ELSE IF item.metaKind = "dict" /\ ProbeKeys(item.meta) # 0 THEN ProbeKeys(item.meta)
    ELSE IF item.dataKind = "dict" THEN ProbeKeys(item.elems[1])
    ELSE IF item.dataKind = "list" THEN ProbeList(item.elems)
    ELSE 0

\* extract_task_id, 0 standing for None
ExtractTaskId(item) ==
    IF item.kind # "dict" THEN 0
    ELSE IF ProbeKeys(item.top) # 0 THEN ProbeKeys(item.top)
    ELSE IF item.dataKind = "dict" /\ ProbeKeys(item.elems[1]) # 0
         THEN ProbeKeys(item.elems[1])
    ELSE IF item.dataKind = "list" /\ ProbeList(item.elems) # 0
         THEN ProbeList(item.elems)
    ELSE IF item.metaKind = "dict" THEN ProbeKeys(item.meta)
    ELSE 0

\* the dict generate_song returns, as extract_task_id sees it: task_id at top
\* level on 202, and none of the probed keys in an error result
GenerateSongResult(g) ==
    Item("dict", [NoKeys EXCEPT !["task_id"] = IF g.status = 202 THEN g.task_id ELSE 0],
         "absent", <<>>, "absent", NoKeys)

\* generate_song and the create_song route around generate_music: a result
\* without a data field becomes 500, the 202 is passed on with the task id
\* that extract_task_id finds in it
CreateResponse(g) ==
    IF g.status = 202
    THEN Response("create", ExtractTaskId(GenerateSongResult(g)), NONE, 202, "", "", NONE)
    ELSE Response("create", ExtractTaskId(GenerateSongResult(g)), NONE, 500,
                  "Suno API returned no data", "", NONE)

\* POST /create_song: the lyrics, the provider's answer and the lookup of an
\* existing Song
create_song(rows, args, lyricsOk, g) ==
    CASE ~lyricsOk ->
           Return(rows, Response("create", 0, NONE, 500,
                                 "Lyrics or music generation failed", "", NONE))
      [] lyricsOk /\ g.status # 202 ->
           Return(rows, CreateResponse(g))
      [] lyricsOk /\ g.status = 202 /\ QueryFirst(rows, g.task_id) # NoSong ->
           Return(rows, CreateResponse(g))
      [] OTHER ->
           Goto(rows, "insert", Locals("create", g.task_id, NONE, NoSong, args))

CreateSong ==
    /\ Free
    /\ \E e \in Effects({ create_song(songs, args, lyricsOk, g) :
                            args \in SongInputs, lyricsOk \in BOOLEAN, g \in GenerateResults }) :
           Start(e)

\* generate_music_insert, had it put an existing Song back to processing
generate_music_insert_reset(rows, locals, dbOk) ==
    Return(IF ~dbOk THEN rows
           ELSE IF UniqueViolation(rows, locals.task_id)
           THEN [ i \in 1..Len(rows) |->
                    IF rows[i].task_id = locals.task_id
                    THEN Song(i, locals.task_id, locals.args, "processing")
                    ELSE rows[i] ]
           ELSE InsertSong(rows, locals.task_id, locals.args),
           CreateResponse(Accepted(locals.task_id)))

\* generate_music_insert, had it let a failure of the insert reach the caller
generate_music_insert_raise(rows, locals, dbOk) ==
    IF dbOk
    THEN Return(InsertSong(rows, locals.task_id, locals.args),
                CreateResponse(Accepted(locals.task_id)))
    ELSE Return(rows, Response("create", 0, NONE, 500, "Unexpected error", "", NONE))

\* db.session.add(song); db.session.commit(); a failure is logged and
\* swallowed, and the caller gets the 202 either way
generate_music_insert(rows, locals, dbOk) ==
    Return(IF dbOk THEN InsertSong(rows, locals.task_id, locals.args) ELSE rows,
           CreateResponse(Accepted(locals.task_id)))

GenerateMusicInsert ==
    \E h \in At("insert") :
      \E e \in Effects({ generate_music_insert(songs, h.locals, dbOk) : dbOk \in BOOLEAN }) :
        Step(h, e)

\* ------------------------------------------------------------------ poll
\* What GET {base}/api/v1/generate/record-info can answer: a network failure,
\* a body that is not JSON, a JSON value that is not an object, or an object
\* with an internal status, a code and a data field (absent, an object, a
\* list) that may hold the audio URL under audio_url or audioUrl.
StatusAnswer(net, http, body, status, code, shape, key, url) ==
    [ net |-> net, http |-> http, body |-> body, status |-> status, code |-> code,
      shape |-> shape, key |-> key, url |-> url ]

StatusAnswers ==
    { StatusAnswer(TRUE, 0, "text", 0, 0, "absent", "none", NONE) }
    \cup { StatusAnswer(FALSE, h, b, 0, 0, "absent", "none", NONE) :
             h \in {200, 404, 500}, b \in {"text", "array"} }
    \cup { StatusAnswer(FALSE, h, "object", st, c, "absent", "none", NONE) :
             h \in {200, 404, 500}, st \in {0, 404}, c \in {0, 200, 500} }
    \cup { StatusAnswer(FALSE, 200, "object", 0, c, s, k, u) :
             c \in {0, 200},
             s \in {"dict", "list", "emptylist"},
             k \in {"audio_url", "audioUrl", "none"},
             u \in SunoURLs }

\* the audio URL check_status finds in the data field, None when it finds none
StatusAudioUrl(a) ==
    IF a.shape \in {"dict", "list"} /\ a.key \in {"audio_url", "audioUrl"}
    THEN a.url
    ELSE NONE

\* what check_status hands back: the HTTP status, the payload's status and
\* audio_url, or raised when an exception other than RequestException leaves it
CheckResult(raised, http, status, audio_url) ==
    [ raised |-> raised, http |-> http, status |-> status, audio_url |-> audio_url ]

\* SunoMusicGenerator.check_status
CheckStatus(a) ==
    CASE a.net -> CheckResult(FALSE, 500, "request_exception", NONE)
      [] a.body = "text" -> CheckResult(FALSE, a.http, "invalid_json", NONE)
      [] a.body = "array" -> CheckResult(TRUE, 0, "raised", NONE)
      [] a.http = 404 \/ a.status = 404 -> CheckResult(FALSE, 404, "not_found", NONE)
      [] a.http # 200 \/ a.code \notin {200, 0} -> CheckResult(FALSE, a.http, "error", NONE)
      [] Truthy(StatusAudioUrl(a)) -> CheckResult(FALSE, 200, "completed", StatusAudioUrl(a))
      [] OTHER -> CheckResult(FALSE, 202, "pending", NONE)

CheckResults == { CheckStatus(a) : a \in StatusAnswers }

\* PollAssign, had it put a Song whose upload failed back to pending
PollAssignPending(song, suno_audio_url, cloudinary_url) ==
    [ song EXCEPT !.suno_url = suno_audio_url,
                  !.cloudinary_url = cloudinary_url,
                  !.audio_url = cloudinary_url,
                  !.status = IF Truthy(cloudinary_url) THEN "completed" ELSE "pending" ]

\* PollAssign, had it recorded a failed upload on the Song
PollAssignFailed(song, suno_audio_url, cloudinary_url) ==
    IF Truthy(cloudinary_url)
    THEN [ song EXCEPT !.suno_url = suno_audio_url,
                       !.cloudinary_url = cloudinary_url,
                       !.audio_url = cloudinary_url,
                       !.status = "completed" ]
    ELSE [ song EXCEPT !.suno_url = suno_audio_url,
                       !.status = "failed",
                       !.retry_count = @ + 1,
                       !.error_message = "Cloudinary upload failed" ]

\* the assignments of check_status_route before its commit
PollAssign(song, suno_audio_url, cloudinary_url) ==
    [ song EXCEPT !.suno_url = suno_audio_url,
                  !.cloudinary_url = cloudinary_url,
                  !.audio_url = cloudinary_url,
                  !.status = "completed" ]

\* the body and status check_status_route returns from a Song
SongResponse(task_id, song) ==
    Response("poll", task_id, NONE, IF Truthy(song.cloudinary_url) THEN 200 ELSE 202,
             "", song.status, song.cloudinary_url)

\* what check_status_route returns without looking at the table
ProviderResponse(task_id, c) ==
    CASE c.raised -> Response("poll", task_id, NONE, 500, "error", "", NONE)
      [] ~c.raised /\ c.http = 404 ->
           Response("poll", task_id, NONE, 404, "Task not found on Suno", "", NONE)
      [] OTHER -> Response("poll", task_id, NONE, c.http, "", c.status, NONE)

\* check_status_route, had it uploaded only while cloudinary_url is None
check_status_route_is_none(rows, task_id, c) ==
    LET song == QueryFirst(rows, task_id)
    IN  CASE c.raised \/ c.http # 200 ->
               Return(rows, ProviderResponse(task_id, c))
          [] ~c.raised /\ c.http = 200 /\ song = NoSong ->
               Return(rows, Response("poll", task_id, NONE, 404, "Song not found", "", NONE))
          [] ~c.raised /\ c.http = 200 /\ song # NoSong
                  /\ Truthy(c.audio_url) /\ song.cloudinary_url = NONE ->
               Goto(rows, "upload", Locals("poll", task_id, c.audio_url, song, NoInput))
          [] OTHER ->
               Return(rows, SongResponse(task_id, song))

\* GET /check_status/<task_id>: the provider's answer, the lookup of the
\* Song, and the response when there is nothing to upload
check_status_route(rows, task_id, c) ==
    LET song == QueryFirst(rows, task_id)
    IN  CASE c.raised \/ c.http # 200 ->
               Return(rows, ProviderResponse(task_id, c))
          [] ~c.raised /\ c.http = 200 /\ song = NoSong ->
               Return(rows, Response("poll", task_id, NONE, 404, "Song not found", "", NONE))
          [] ~c.raised /\ c.http = 200 /\ song # NoSong
                  /\ Truthy(c.audio_url) /\ ~Truthy(song.cloudinary_url) ->
               Goto(rows, "upload", Locals("poll", task_id, c.audio_url, song, NoInput))
          [] OTHER ->
               Return(rows, SongResponse(task_id, song))

CheckStatusRoute ==
    /\ Free
    /\ \E e \in Effects({ check_status_route(songs, task_id, c) :
                            task_id \in Tasks, c \in CheckResults }) :
           Start(e)

\* upload_to_cloudinary: the secure_url, or "" when anything fails
UploadResults == DurableURLs \cup {""}

\* cloudinary_url = upload_to_cloudinary(suno_audio_url), the four
\* assignments and db.session.commit()
check_status_route_upload(rows, locals, cloudinary_url, dbOk) ==
    IF dbOk
    THEN Goto(CommitUpdate(rows, locals.song,
                           PollAssign(locals.song, locals.audio_url, cloudinary_url)),
              "respond",
              Locals("poll", locals.task_id, NONE, Expired(locals.song), NoInput))
    ELSE Return(rows, Response("poll", locals.task_id, NONE, 500, "error", "", NONE))

CheckStatusRouteUpload ==
    \E h \in At("upload") :
      \E e \in Effects({ check_status_route_upload(songs, h.locals, cloudinary_url, dbOk) :
                          cloudinary_url \in UploadResults, dbOk \in BOOLEAN }) :
        Step(h, e)

\* the response after the commit: the expired Song is loaded again
check_status_route_respond(rows, locals) ==
    Return(rows, SongResponse(locals.task_id, rows[locals.song.id]))

CheckStatusRouteRespond ==
    \E h \in At("respond") :
      \E e \in Effects({ check_status_route_respond(songs, h.locals) }) :
        Step(h, e)

\* ------------------------------------------------------------------ callback
\* CallbackAssign, had it handed the clients Suno's link
CallbackAssignSunoAlias(song, audio_url, cloudinary_url) ==
    [ song EXCEPT !.status = "completed",
                  !.suno_url = audio_url,
                  !.cloudinary_url = cloudinary_url,
                  !.audio_url = audio_url ]

\* the assignments of receive_song before its commit
CallbackAssign(song, audio_url, cloudinary_url) ==
    [ song EXCEPT !.status = "completed",
                  !.suno_url = audio_url,
                  !.cloudinary_url = cloudinary_url,
                  !.audio_url = cloudinary_url ]

\* receive_song, had it made the Song a callback finds none for
receive_song_upsert(rows, task_id, audio_url) ==
    LET song == QueryFirst(rows, task_id)
        made == InsertSong(rows, task_id, NoInput)
    IN  CASE task_id = 0 \/ ~Truthy(audio_url) ->
               Return(rows, Response("callback", task_id, audio_url, 400,
                                     "Missing task_id or audio_url", "", NONE))
          [] task_id # 0 /\ Truthy(audio_url) /\ song = NoSong ->
               Goto(made, "store",
                    Locals("callback", task_id, audio_url, QueryFirst(made, task_id), NoInput))
          [] OTHER ->
               Goto(rows, "store", Locals("callback", task_id, audio_url, song, NoInput))

\* POST /receive_song: validation and lookup (task id 0 and audio URL None
\* stand for a missing field)
receive_song(rows, task_id, audio_url) ==
    LET song == QueryFirst(rows, task_id)
    IN  CASE task_id = 0 \/ ~Truthy(audio_url) ->
               Return(rows, Response("callback", task_id, audio_url, 400,
                                     "Missing task_id or audio_url", "", NONE))
          [] task_id # 0 /\ Truthy(audio_url) /\ song = NoSong ->
               Return(rows, Response("callback", task_id, audio_url, 404,
                                     "Song not found", "", NONE))
          [] OTHER ->
               Goto(rows, "store", Locals("callback", task_id, audio_url, song, NoInput))

ReceiveSong ==
    /\ Free
    /\ \E e \in Effects({ receive_song(songs, task_id, audio_url) :
                            task_id \in Tasks \cup {0}, audio_url \in SunoURLs \cup {NONE} }) :
           Start(e)

\* receive_song_store, had it committed whatever the upload returned, as the
\* poll does
receive_song_store_unchecked(rows, locals, downloadOk, cloudinary_url, dbOk) ==
    LET fail(error) == Return(rows, Response("callback", locals.task_id, locals.audio_url,
                                             500, error, "", NONE))
        stored == CommitUpdate(rows, locals.song,
                               CallbackAssign(locals.song, locals.audio_url, cloudinary_url))
    IN  CASE ~downloadOk -> fail("Failed to download audio")
          [] downloadOk /\ ~dbOk -> fail("Database update failed")
          [] downloadOk /\ dbOk /\ ~Truthy(cloudinary_url) ->
               Return(stored, Response("callback", locals.task_id, locals.audio_url,
                                       500, "Cloudinary upload failed", "", NONE))
          [] OTHER ->
               Return(stored, Response("callback", locals.task_id, locals.audio_url,
                                       200, "", "", cloudinary_url))

\* Step 1: the download; Step 2: upload_to_cloudinary, an empty URL being a
\* failure; Step 3: the four assignments and db.session.commit(), rolled
\* back on failure
receive_song_store(rows, locals, downloadOk, cloudinary_url, dbOk) ==
    LET fail(error) == Return(rows, Response("callback", locals.task_id, locals.audio_url,
                                             500, error, "", NONE))
    IN  CASE ~downloadOk -> fail("Failed to download audio")
          [] downloadOk /\ ~Truthy(cloudinary_url) -> fail("Cloudinary upload failed")
          [] downloadOk /\ Truthy(cloudinary_url) /\ ~dbOk -> fail("Database update failed")
          [] OTHER ->
               Return(CommitUpdate(rows, locals.song,
                                   CallbackAssign(locals.song, locals.audio_url,
                                                  cloudinary_url)),
                      Response("callback", locals.task_id, locals.audio_url,
                               200, "", "", cloudinary_url))

ReceiveSongStore ==
    \E h \in At("store") :
      \E e \in Effects({ receive_song_store(songs, h.locals, downloadOk, cloudinary_url, dbOk) :
                          downloadOk \in BOOLEAN, cloudinary_url \in UploadResults,
                          dbOk \in BOOLEAN }) :
        Step(h, e)

\* ------------------------------------------------------------------ system
Next ==
    \/ CreateSong
    \/ GenerateMusicInsert
    \/ CheckStatusRoute
    \/ CheckStatusRouteUpload
    \/ CheckStatusRouteRespond
    \/ ReceiveSong
    \/ ReceiveSongStore

Spec == Init /\ [][Next]_vars

\* ------------------------------------------------------------------ helpers
\* The two helpers of music_generator.py that main.py imports. No route
\* calls them: a call runs beside the request handlers and shares no state
\* with them.

\* stop=stop_after_attempt(3)
StopAfterAttempt == 3

\* what cloudinary.uploader.upload does in one attempt: it raises, or it
\* returns a result that carries its secure_url
BufferUploads == DurableURLs \cup {"raise"}

\* upload_audio_to_cloudinary_from_buffer, had the retrying stopped only
\* after more than three attempts
upload_audio_to_cloudinary_from_buffer_late_stop(call, result) ==
    LET attempt == call.attempt + 1
    IN  CASE result # "raise" ->
               [ pc |-> "returned", attempt |-> attempt, value |-> result ]
          [] result = "raise" /\ attempt > StopAfterAttempt ->
               [ pc |-> "raised", attempt |-> attempt, value |-> NONE ]
          [] OTHER ->
               [ pc |-> "calling", attempt |-> attempt, value |-> NONE ]

\* one attempt of upload_audio_to_cloudinary_from_buffer under @retry: the
\* secure_url is returned, or the exception is raised again and the
\* decorator stops (RetryError) at the third attempt, and retries before
upload_audio_to_cloudinary_from_buffer(call, result) ==
    LET attempt == call.attempt + 1
    IN  CASE result # "raise" ->
               [ pc |-> "returned", attempt |-> attempt, value |-> result ]
          [] result = "raise" /\ attempt >= StopAfterAttempt ->
               [ pc |-> "raised", attempt |-> attempt, value |-> NONE ]
          [] OTHER ->
               [ pc |-> "calling", attempt |-> attempt, value |-> NONE ]

\* upload_audio_to_cloudinary_from_buffer is called
UploadAudioCall ==
    /\ uploader.pc = "idle"
    /\ uploader' = [ NoUpload EXCEPT !.pc = "calling" ]
    /\ UNCHANGED <<songs, handlers, poller>>

\* the decorator calls the function once more
UploadAudioAttempt ==
    /\ uploader.pc = "calling"
    /\ \E result \in BufferUploads :
         uploader' = upload_audio_to_cloudinary_from_buffer(uploader, result)
    /\ UNCHANGED <<songs, handlers, poller>>

\* the caller has the URL or the RetryError
UploadAudioDone ==
    /\ uploader.pc \in {"returned", "raised"}
    /\ uploader' = NoUpload
    /\ UNCHANGED <<songs, handlers, poller>>

\* the request handlers, and a caller of upload_audio_to_cloudinary_from_buffer
RetryNext ==
    \/ Next
    \/ UploadAudioCall
    \/ UploadAudioAttempt
    \/ UploadAudioDone

RetrySpec == Init /\ [][RetryNext]_vars

\* retries of a call of poll_for_audio (12 when the caller names none)
MaxRetries == 3

\* What GET {APP_BASE_URL}/check_status/<task_id> answers to poll_for_audio:
\* no answer (RequestException), a status other than 200, or 200 with a
\* JSON object whose audio_url is a durable URL or is empty
PollAnswer(net, code, audio_url) == [ net |-> net, code |-> code, audio_url |-> audio_url ]

PollAnswers ==
    { PollAnswer(TRUE, 0, NONE) }
    \cup { PollAnswer(FALSE, code, NONE) : code \in {202, 404, 500} }
    \cup { PollAnswer(FALSE, 200, audio_url) : audio_url \in DurableURLs \cup {""} }

\* response.status_code == 200 and data.get("audio_url")
Ready(answer) == ~answer.net /\ answer.code = 200 /\ Truthy(answer.audio_url)

\* poll_for_audio, had it returned the audio_url of any 200 response
poll_for_audio_any_200(call, answer) ==
    IF ~answer.net /\ answer.code = 200
    THEN [ call EXCEPT !.pc = "returned", !.attempt = @ + 1,
                       !.seen = Append(@, answer), !.value = answer.audio_url ]
    ELSE [ call EXCEPT !.attempt = @ + 1, !.seen = Append(@, answer) ]

\* one turn of the loop of poll_for_audio: the request, the return when the
\* audio URL is there, else the sleep
poll_for_audio(call, answer) ==
    IF Ready(answer)
    THEN [ call EXCEPT !.pc = "returned", !.attempt = @ + 1,
                       !.seen = Append(@, answer), !.value = answer.audio_url ]
    ELSE [ call EXCEPT !.attempt = @ + 1, !.seen = Append(@, answer) ]

\* poll_for_audio(task_id, interval, retries) is called
PollForAudioCall ==
    /\ poller.pc = "idle"
    /\ \E retries \in 0..MaxRetries :
         poller' = [ NoPoll EXCEPT !.pc = "calling", !.retries = retries ]
    /\ UNCHANGED <<songs, handlers, uploader>>

\* for attempt in range(retries): one request to the status endpoint
PollForAudioAttempt ==
    /\ poller.pc = "calling"
    /\ poller.attempt < poller.retries
    /\ \E answer \in PollAnswers :
         poller' = poll_for_audio(poller, answer)
    /\ UNCHANGED <<songs, handlers, uploader>>

\* the loop is over: return None
PollForAudioExhausted ==
    /\ poller.pc = "calling"
    /\ poller.attempt >= poller.retries
    /\ poller' = [ poller EXCEPT !.pc = "returned", !.value = NONE ]
    /\ UNCHANGED <<songs, handlers, uploader>>

\* the caller has the URL or None
PollForAudioDone ==
    /\ poller.pc = "returned"
    /\ poller' = NoPoll
    /\ UNCHANGED <<songs, handlers, uploader>>

PollNext ==
    \/ PollForAudioCall
    \/ PollForAudioAttempt
    \/ PollForAudioExhausted
    \/ PollForAudioDone

\* every request of poll_for_audio has timeout=10 and every sleep ends: a
\* call that can take a step takes it
PollSpec == Init /\ [][PollNext]_vars /\ WF_vars(PollNext)

\* ------------------------------------------------------------------ properties
\* the rows of a table that carry a task id
RowsOf(rows, task_id) == { i \in 1..Len(rows) : rows[i].task_id = task_id }

\* the committed row a handler loaded
Committed(h) == songs[h.locals.song.id]

\* C1 as stated: whenever an insert-if-absent step of generate_music is about
\* to run, however many others run beside it, it leaves exactly one Song with
\* its task id, whatever the database does with its commit.
C1_ExactlyOneSong ==
    \A h \in At("insert"), dbOk \in BOOLEAN :
        Cardinality(RowsOf(generate_music_insert(songs, h.locals, dbOk).songs,
                           h.locals.task_id)) = 1

\* C1 amended: no task id ever has more than one Song, and an
\* insert-if-absent step leaves exactly one Song with its task id unless the
\* database fails its commit (the failure is swallowed and there may be none).
C1_AtMostOneSong ==
    /\ \A t \in Tasks : Cardinality(RowsOf(songs, t)) <= 1
    /\ \A h \in At("insert") :
         Cardinality(RowsOf(generate_music_insert(songs, h.locals, TRUE).songs,
                            h.locals.task_id)) = 1

\* two creations of the same task raced: one found no Song and is about to
\* insert, and the other has inserted meanwhile
C1_Witness ==
    \E h \in At("insert") : UniqueViolation(songs, h.locals.task_id)

\* pending -> processing -> {completed, failed}
StatusRank(status) ==
    CASE status = "pending" -> 0
      [] status = "processing" -> 1
      [] OTHER -> 2

\* C2: every step of every handler leaves every Song's status where it was or
\* moves it forward along pending -> processing -> {completed, failed}; a
\* completed (or failed) Song keeps its status, and a new Song starts before
\* completion.
C2_StatusForward ==
    [][ /\ Len(songs') >= Len(songs)
        /\ \A i \in 1..Len(songs) :
             /\ StatusRank(songs'[i].status) >= StatusRank(songs[i].status)
             /\ songs[i].status \in {"completed", "failed"}
                  => songs'[i].status = songs[i].status
        /\ \A i \in (Len(songs) + 1)..Len(songs') :
             songs'[i].status \in {"pending", "processing"} ]_vars

\* a handler that loaded a Song before it was completed is about to commit
\* on the completed Song
C2_Witness ==
    \E h \in At("upload") \cup At("store") :
        /\ h.locals.song.status = "processing"
        /\ Committed(h).status = "completed"

\* C3: in every committed state, every Song's audio_url equals its
\* cloudinary_url.
C3_AudioUrlMirrors ==
    \A i \in 1..Len(songs) : songs[i].audio_url = songs[i].cloudinary_url

\* a Song holds a durable URL, written by a callback and by a poll that raced
C3_Witness ==
    \E i \in 1..Len(songs) :
        /\ Truthy(songs[i].cloudinary_url)
        /\ \E h \in At("respond") : h.locals.song.id = i

\* C4: once a Song's cloudinary_url holds a durable URL, no step changes it.
C4_SetAtMostOnce ==
    [][ \A i \in 1..Len(songs) :
          Truthy(songs[i].cloudinary_url)
            => songs'[i].cloudinary_url = songs[i].cloudinary_url ]_vars

\* C5: a callback that runs after a callback with the same task id and audio
\* URL has stored a durable URL leaves cloudinary_url as that one left it.
C5_CallbackIdempotent ==
    \A h \in At("store") :
        ( /\ h.locals.song = Committed(h)
          /\ Committed(h).status = "completed"
          /\ Committed(h).suno_url = h.locals.audio_url
          /\ Truthy(Committed(h).cloudinary_url) )
        => \A downloadOk \in BOOLEAN, cloudinary_url \in UploadResults, dbOk \in BOOLEAN :
             receive_song_store(songs, h.locals, downloadOk, cloudinary_url, dbOk)
                 .songs[h.locals.song.id].cloudinary_url
               = Committed(h).cloudinary_url

\* C6: whatever the provider answers, a poll of a task whose Song holds a
\* durable URL returns 200 with that URL, and a poll returns 202 only when
\* the Song holds none.
C6_DurableUrlServed ==
    \A t \in Tasks, c \in CheckResults :
        LET song == QueryFirst(songs, t)
            response == check_status_route(songs, t, c).response
        IN  /\ (song # NoSong /\ Truthy(song.cloudinary_url))
                 => (response.code = 200 /\ response.url = song.cloudinary_url)
            /\ (song # NoSong /\ response.code = 202)
                 => ~Truthy(song.cloudinary_url)

\* C7: a poll whose upload comes back empty leaves the table as it is, and
\* answers 202 without an audio URL.
C7_FailedUploadNoWrite ==
    \A h \in At("upload") :
        LET o == check_status_route_upload(songs, h.locals, "", TRUE)
            response == check_status_route_respond(o.songs, o.locals).response
        IN  /\ o.songs = songs
            /\ response.code = 202
            /\ ~Truthy(response.url)

\* C8: every Song either has suno_url, cloudinary_url and audio_url all
\* unset and is not completed, or has all three set and is completed.
C8_NoPartialSong ==
    \A i \in 1..Len(songs) :
        \/ /\ ~Truthy(songs[i].suno_url)
           /\ ~Truthy(songs[i].cloudinary_url)
           /\ ~Truthy(songs[i].audio_url)
           /\ songs[i].status # "completed"
        \/ /\ Truthy(songs[i].suno_url)
           /\ Truthy(songs[i].cloudinary_url)
           /\ Truthy(songs[i].audio_url)
           /\ songs[i].status = "completed"

\* what the provider may answer about a task id it does not know: HTTP 404
\* with an object or with a body that is not JSON, HTTP 200 with the internal
\* status 404, or a JSON body that is not an object
UnknownTaskAnswers ==
    { a \in StatusAnswers :
        /\ ~a.net
        /\ \/ a.http = 404 /\ a.body \in {"object", "text"}
           \/ a.http = 200 /\ a.body = "object" /\ a.status = 404
           \/ a.body = "array" }

\* C9: whenever the server can take a poll, the check_status the poll calls
\* answers not_found with 404 to each of them, and raises on none.
C9_UnknownTaskNotFound ==
    BagCardinality(handlers) < MaxReq
      => \A a \in UnknownTaskAnswers :
           /\ ~CheckStatus(a).raised
           /\ CheckStatus(a).http = 404
           /\ CheckStatus(a).status = "not_found"

\* C10: whatever the provider answers, a poll of a task that has no Song
\* returns 404.
C10_NoSongNotFound ==
    \A t \in Tasks, c \in CheckResults :
        QueryFirst(songs, t) = NoSong
          => check_status_route(songs, t, c).response.code = 404

\* C11: whenever the server can take a creation request, a request whose
\* style is "instrumental" in any letter case makes generate_music post a
\* payload that has no style field and has instrumental = true.
C11_InstrumentalOmitsStyle ==
    BagCardinality(handlers) < MaxReq
      => \A request \in CreateRequests :
           Lower(request.style) = "instrumental"
             => /\ SunoPayload(request).instrumental
                /\ SunoPayload(request).style = NONE

\* an answer of POST /api/v1/generate carries a task id somewhere
HasTaskId(a) ==
    \/ a.shape \in {"dict", "list"} /\ a.key # "none"
    \/ a.top # "none"

\* the answers by which Suno rejects a creation or answers it malformed: a
\* body that is not JSON, or an object with a non-200 HTTP status, with an
\* error code, or without a task id
RejectedAnswers ==
    { a \in GenerateAnswers :
        /\ ~a.net
        /\ \/ a.body = "text"
           \/ a.body = "object" /\ (a.http # 200 \/ a.code # 200 \/ ~HasTaskId(a)) }

\* the answers on which generate_music raises: no answer at all, or a JSON
\* body that is not an object
RaisingAnswers == { a \in GenerateAnswers : a.net \/ a.body = "array" }

\* what generate_music returns on them
RejectedResults == { GenerateMusic(a) : a \in RejectedAnswers }

RaisedResults == { GenerateMusic(a) : a \in RaisingAnswers }

\* C12: the caller of POST /create_song gets 502 and generate_music's error
\* message for every rejected or malformed answer of Suno.
C12_RejectionIs502 ==
    \A g \in RejectedResults, args \in SongInputs :
        LET response == create_song(songs, args, TRUE, g).response
        IN  /\ response.code = 502
            /\ response.error = g.error

\* C13: generate_music returns 502 for every rejected or malformed answer of
\* Suno and 500 when an exception is raised, and whenever it returns
\* something other than 202 the creation ends there with the table as it was.
C13_FailureStatusNoSong ==
    /\ \A g \in RejectedResults : g.status = 502
    /\ \A g \in RaisedResults : g.status = 500
    /\ \A g \in GenerateResults, args \in SongInputs :
         LET o == create_song(songs, args, TRUE, g)
         IN  g.status # 202
               => (g.status \in {500, 502} /\ o.songs = songs /\ o.pc = "idle")

\* Songs are stored, one of them completed, and a creation can be taken
C13_Witness ==
    /\ BagCardinality(handlers) < MaxReq
    /\ \E i \in 1..Len(songs) : songs[i].status = "completed"
    /\ RejectedAnswers # {} /\ RaisingAnswers # {}

\* C14: when Suno accepted the task, a creation that finds a Song with the
\* task id leaves the table as it is; one that finds none goes on to insert,
\* and its insert, unless the database fails it, appends a Song in status
\* processing without URLs if there is still none, and changes nothing if
\* there is one by then; either way the response is 202 with the task id.
C14_InsertIffAbsent ==
    /\ \A g \in GenerateResults, args \in SongInputs :
         LET o == create_song(songs, args, TRUE, g)
         IN  g.status = 202 =>
               IF QueryFirst(songs, g.task_id) # NoSong
               THEN /\ o.songs = songs
                    /\ o.response.code = 202
                    /\ o.response.task_id = g.task_id
               ELSE /\ o.songs = songs
                    /\ o.pc = "insert"
                    /\ o.locals.task_id = g.task_id
    /\ \A h \in At("insert") :
         LET o == generate_music_insert(songs, h.locals, TRUE)
         IN  /\ o.response.code = 202
             /\ o.response.task_id = h.locals.task_id
             /\ IF QueryFirst(songs, h.locals.task_id) # NoSong
                THEN o.songs = songs
                ELSE o.songs = Append(songs, Song(Len(songs) + 1, h.locals.task_id,
                                                  h.locals.args, "processing"))

\* an insert is about to run for a task whose Song was inserted by another
\* creation, and completed, in the meantime
C14_Witness ==
    \E h \in At("insert") :
        QueryFirst(songs, h.locals.task_id).status = "completed"

\* C15: an insert of generate_music that the database fails leaves the table
\* as it is, without a Song for the task if there was none, and the caller
\* still gets the 202 with the task id.
C15_InsertFailureSwallowed ==
    \A h \in At("insert") :
        LET o == generate_music_insert(songs, h.locals, FALSE)
        IN  /\ o.songs = songs
            /\ o.pc = "idle"
            /\ o.response.code = 202
            /\ o.response.task_id = h.locals.task_id
            /\ QueryFirst(songs, h.locals.task_id) = NoSong
                 => RowsOf(o.songs, h.locals.task_id) = {}

\* an insert is about to run for a task without a Song, beside a Song of
\* another task
C15_Witness ==
    \E h \in At("insert") :
        /\ RowsOf(songs, h.locals.task_id) = {}
        /\ Len(songs) > 0

\* C16: a callback that lacks its task id or its audio URL is answered 400,
\* one for a task without a Song 404, and one whose download, upload (an
\* empty URL included) or commit fails 500; each of them leaves the whole
\* table as it was.
C16_FailedCallbackNoWrite ==
    /\ \A task_id \in Tasks \cup {0}, audio_url \in SunoURLs \cup {NONE} :
         LET o == receive_song(songs, task_id, audio_url)
         IN  /\ (task_id = 0 \/ ~Truthy(audio_url))
                  => (o.response.code = 400 /\ o.songs = songs)
             /\ (task_id # 0 /\ Truthy(audio_url) /\ RowsOf(songs, task_id) = {})
                  => (o.response.code = 404 /\ o.songs = songs)
    /\ \A h \in At("store") :
         \A downloadOk \in BOOLEAN, cloudinary_url \in UploadResults, dbOk \in BOOLEAN :
           (~downloadOk \/ ~Truthy(cloudinary_url) \/ ~dbOk)
             => LET o == receive_song_store(songs, h.locals, downloadOk, cloudinary_url, dbOk)
                IN  o.response.code = 500 /\ o.songs = songs

\* a callback is about to download, upload and commit for a Song that is
\* still processing, beside a Song that is completed
C16_Witness ==
    \E h \in At("store") :
        /\ Committed(h).status = "processing"
        /\ \E i \in 1..Len(songs) : songs[i].status = "completed"

\* C17: a callback whose download, upload and commit all succeed leaves its
\* Song completed, with suno_url the callback's audio URL and with
\* cloudinary_url and audio_url the durable URL the upload returned, which is
\* not the callback's audio URL.
C17_CallbackStoresUrls ==
    \A h \in At("store"), cloudinary_url \in DurableURLs :
        LET o == receive_song_store(songs, h.locals, TRUE, cloudinary_url, TRUE)
            song == o.songs[h.locals.song.id]
        IN  /\ o.response.code = 200
            /\ song.status = "completed"
            /\ song.suno_url = h.locals.audio_url
            /\ song.cloudinary_url = cloudinary_url
            /\ song.audio_url = cloudinary_url
            /\ cloudinary_url # h.locals.audio_url

\* C18: whenever the server can take a poll, check_status puts every answer
\* that Suno gives into exactly one class, in this order: HTTP 404 or the
\* internal status 404 is not_found with 404; else a non-200 HTTP status or
\* an error code is error with Suno's HTTP status; else an audio URL under
\* audio_url or audioUrl, in data as an object or as the first element of a
\* list, is completed with 200 and that URL; else pending with 202.
C18_StatusClassified ==
    BagCardinality(handlers) < MaxReq
      => \A a \in { x \in StatusAnswers : ~x.net } :
           LET c == CheckStatus(a)
               object == a.body = "object"
               notFound == a.http = 404 \/ (object /\ a.status = 404)
               error == ~notFound /\ (a.http # 200 \/ (object /\ a.code \notin {0, 200}))
               found == /\ ~notFound /\ ~error /\ object
                        /\ a.shape \in {"dict", "list"}
                        /\ a.key \in {"audio_url", "audioUrl"}
           IN  /\ ~c.raised
               /\ notFound => (c.http = 404 /\ c.status = "not_found")
               /\ error => (c.http = a.http /\ c.status = "error")
               /\ found => (c.http = 200 /\ c.status = "completed" /\ c.audio_url = a.url)
               /\ (~notFound /\ ~error /\ ~found) => (c.http = 202 /\ c.status = "pending")

\* objects with at most n of the probed keys set
KeyMaps(n) ==
    { m \in [KeySet -> {0} \cup Tasks] : Cardinality({ key \in KeySet : m[key] # 0 }) <= n }

\* the arguments extract_task_id is tried on: None, a value that is not a
\* mapping, mappings with up to two keys at one place (top level, data as an
\* object, data as a list of one or two objects, metadata), and mappings with
\* up to one key at each of the three places
ExtractItems ==
    { Item(kind, NoKeys, "absent", <<>>, "absent", NoKeys) : kind \in {"none", "other"} }
    \cup { Item("dict", m, "absent", <<>>, "absent", NoKeys) : m \in KeyMaps(2) }
    \cup { Item("dict", NoKeys, dataKind, <<m>>, "absent", NoKeys) :
             dataKind \in {"dict", "list"}, m \in KeyMaps(2) }
    \cup { Item("dict", NoKeys, "list", <<m, n>>, "absent", NoKeys) :
             m \in KeyMaps(1), n \in KeyMaps(1) }
    \cup { Item("dict", NoKeys, "absent", <<>>, "dict", m) : m \in KeyMaps(2) }
    \cup { Item("dict", top, dataKind, <<m>>, metaKind, meta) :
             top \in KeyMaps(1), dataKind \in {"dict", "list"}, m \in KeyMaps(1),
             metaKind \in {"absent", "dict"}, meta \in KeyMaps(1) }

\* the values under the four keys of an object, in the order id, task_id,
\* taskId, taskID
InKeyOrder(m) == << m["id"], m["task_id"], m["taskId"], m["taskID"] >>

RECURSIVE InListOrder(_)
InListOrder(elems) ==
    IF elems = <<>> THEN <<>> ELSE InKeyOrder(Head(elems)) \o InListOrder(Tail(elems))

\* every value a mapping holds under the probed keys, in the order of C19:
\* top level, data as an object, the elements of data as a list, metadata
Probes(item) ==
    InKeyOrder(item.top)
    \o (IF item.dataKind \in {"dict", "list"} THEN InListOrder(item.elems) ELSE <<>>)
    \o (IF item.metaKind = "dict" THEN InKeyOrder(item.meta) ELSE <<>>)

\* the first truthy value of a sequence, 0 when it has none
FirstTruthy(seq) ==
    IF \A i \in 1..Len(seq) : seq[i] = 0 THEN 0
    ELSE seq[CHOOSE i \in 1..Len(seq) : seq[i] # 0 /\ \A j \in 1..(i - 1) : seq[j] = 0]

\* the arguments on which extract_task_id returns something else than the
\* first truthy value in that order, or something for an argument that is
\* not a mapping
ExtractMisses ==
    { item \in ExtractItems :
        ExtractTaskId(item) # IF item.kind = "dict" THEN FirstTruthy(Probes(item)) ELSE 0 }

\* what extract_task_id returns for {"data": {"taskId": t}}, {"task_id": t},
\* {"data": [{"id": t}]} and {"metadata": {"taskId": t}}
ExtractExamples ==
    [ t \in Tasks |->
        << ExtractTaskId(Item("dict", NoKeys, "dict", <<[NoKeys EXCEPT !["taskId"] = t]>>,
                              "absent", NoKeys)),
           ExtractTaskId(Item("dict", [NoKeys EXCEPT !["task_id"] = t], "absent", <<>>,
                              "absent", NoKeys)),
           ExtractTaskId(Item("dict", NoKeys, "list", <<[NoKeys EXCEPT !["id"] = t]>>,
                              "absent", NoKeys)),
           ExtractTaskId(Item("dict", NoKeys, "absent", <<>>, "dict",
                              [NoKeys EXCEPT !["taskId"] = t])) >> ]

\* what extract_task_id returns for {} and for None
ExtractNothing ==
    << ExtractTaskId(Item("dict", NoKeys, "absent", <<>>, "absent", NoKeys)),
       ExtractTaskId(Item("none", NoKeys, "absent", <<>>, "absent", NoKeys)) >>

\* C19: extract_task_id returns the first truthy value under id, task_id,
\* taskId, taskID at top level, then in data as an object, then in each
\* element of data as a list, then in metadata, and nothing when there is
\* none or when its argument is None or not a mapping; it finds the task id
\* in {"data": {"taskId": t}}, {"task_id": t}, {"data": [{"id": t}]} and
\* {"metadata": {"taskId": t}} and nothing in {} and None; and the route that
\* calls it on a 202 result answers with the task id of that result.
C19_ExtractTaskId ==
    /\ ExtractMisses = {}
    /\ \A t \in Tasks : ExtractExamples[t] = <<t, t, t, t>>
    /\ ExtractNothing = <<0, 0>>
    /\ \A h \in At("insert") :
         generate_music_insert(songs, h.locals, TRUE).response.task_id = h.locals.task_id

\* a creation is about to return the 202 result from which the route
\* extracts the task id
C19_Witness ==
    \E h \in At("insert") :
        /\ h.locals.task_id \in Tasks
        /\ ExtractTaskId(GenerateSongResult(Accepted(h.locals.task_id))) = h.locals.task_id
        /\ Cardinality(ExtractItems) > 100

\* the answers by which Suno accepts a creation and names the task under
\* taskId, task_id or id in data, data being an object or a list of objects
TaskIdAnswers ==
    { a \in GenerateAnswers :
        /\ ~a.net /\ a.body = "object" /\ a.http = 200 /\ a.code = 200
        /\ a.shape \in {"dict", "list"}
        /\ a.key \in {"taskId", "task_id", "id"} }

\* C20: whenever the server can take a creation, generate_music finds the
\* task id in each of these answers and goes on to return 202 with it.
C20_TaskIdShapes ==
    BagCardinality(handlers) < MaxReq
      => \A a \in TaskIdAnswers :
           /\ GenerateMusic(a).status = 202
           /\ GenerateMusic(a).task_id = a.tid

\* C21: a poll that observed Suno's audio URL while its Song had no durable
\* URL, and that commits after another poll that observed the same URL has
\* completed the Song, writes what is already there: status, suno_url,
\* cloudinary_url and audio_url stay as the first commit left them.
C21_SecondPollSameValues ==
    \A h \in At("upload") :
        ( /\ ~Truthy(h.locals.song.cloudinary_url)
          /\ Committed(h).status = "completed"
          /\ Committed(h).suno_url = h.locals.audio_url
          /\ Truthy(Committed(h).cloudinary_url) )
        => \A cloudinary_url \in UploadResults :
             LET song == check_status_route_upload(songs, h.locals, cloudinary_url, TRUE)
                             .songs[h.locals.song.id]
             IN  /\ song.status = Committed(h).status
                 /\ song.suno_url = Committed(h).suno_url
                 /\ song.cloudinary_url = Committed(h).cloudinary_url
                 /\ song.audio_url = Committed(h).audio_url

\* C22: no step replaces a durable cloudinary_url by an empty value.
C22_DurableUrlNotErased ==
    [][ \A i \in 1..Len(songs) :
          Truthy(songs[i].cloudinary_url) => Truthy(songs'[i].cloudinary_url) ]_vars


\* ------------------------------------------------------------------ liveness
\* A handler that has started runs every step it has left: the steps are
\* bounded calls (timeouts on the provider and on the storage; the commit).
FairSpec ==
    /\ Init /\ [][Next]_vars
    /\ WF_vars(GenerateMusicInsert)
    /\ WF_vars(CheckStatusRouteUpload)
    /\ WF_vars(CheckStatusRouteRespond)
    /\ WF_vars(ReceiveSongStore)

\* GET /check_status/<task_id> for task_id, Suno reporting an audio URL
PollObserves(task_id) ==
    /\ Free
    /\ \E c \in { r \in CheckResults : Truthy(r.audio_url) } :
         \E e \in Effects({ check_status_route(songs, task_id, c) }) :
           Start(e)

\* the upload of a poll for task_id returns a secure_url and the commit goes through
UploadSucceeds(task_id) ==
    \E h \in At("upload") :
      /\ h.locals.task_id = task_id
      /\ \E e \in Effects({ check_status_route_upload(songs, h.locals, cloudinary_url, TRUE) :
                              cloudinary_url \in DurableURLs }) :
           Step(h, e)

\* a poll's upload has failed: the Song is completed with an empty durable URL
UploadFailed(task_id) ==
    /\ RowsOf(songs, task_id) # {}
    /\ QueryFirst(songs, task_id).status = "completed"
    /\ QueryFirst(songs, task_id).cloudinary_url = ""

\* the Song is completed with a durable URL and a poll is answered 200 with it
Reconciled(task_id) ==
    /\ RowsOf(songs, task_id) # {}
    /\ QueryFirst(songs, task_id).status = "completed"
    /\ Truthy(QueryFirst(songs, task_id).cloudinary_url)
    /\ \A c \in { r \in CheckResults : r.http = 200 } :
         LET response == check_status_route(songs, task_id, c).response
         IN  /\ response.code = 200
             /\ response.url = QueryFirst(songs, task_id).cloudinary_url

\* C23: after a failed re-upload, if the client keeps polling while Suno
\* reports the audio URL and an upload eventually succeeds, the Song
\* eventually is completed with a durable URL and the poll answers 200.
C23_RetryReconciles ==
    \A task_id \in Tasks :
        ( SF_vars(PollObserves(task_id)) /\ SF_vars(UploadSucceeds(task_id)) )
        => ( UploadFailed(task_id) ~> Reconciled(task_id) )

\* a poll is about to upload again for a Song whose earlier upload failed
C23_Witness ==
    \E h \in At("upload") :
        /\ h.locals.song.status = "completed"
        /\ h.locals.song.cloudinary_url = ""


\* the step brings one more request, or lets a handler return, or takes the
\* handler that has uploaded on to its response: no handler comes back to a
\* call it has made
HandlersForward ==
    \/ handlers' = handlers
    \/ \E h \in BagToSet(handlers') :
         /\ h.pc \in {"insert", "upload", "store"}
         /\ handlers' = handlers (+) SetToBag({h})
    \/ \E h \in BagToSet(handlers) :
         \/ handlers' = handlers (-) SetToBag({h})
         \/ /\ h.pc = "upload"
            /\ \E r \in BagToSet(handlers') :
                 /\ r.pc = "respond"
                 /\ r.locals.task_id = h.locals.task_id
                 /\ handlers' = (handlers (-) SetToBag({h})) (+) SetToBag({r})

\* a call of upload_audio_to_cloudinary_from_buffer makes its attempts one by
\* one, and none once it has returned or raised
AttemptsForward ==
    \/ uploader' = uploader
    \/ uploader.pc = "idle" /\ uploader'.attempt = 0
    \/ uploader.pc = "calling" /\ uploader'.attempt = uploader.attempt + 1
    \/ uploader.pc \in {"returned", "raised"} /\ uploader' = NoUpload

\* the attempts of a call are at most three; it has returned a durable URL
\* with its first attempt that did not raise, and has raised with its third
AttemptsBounded ==
    /\ uploader.attempt <= StopAfterAttempt
    /\ uploader.pc = "calling" => uploader.attempt < StopAfterAttempt
    /\ uploader.pc = "returned" =>
         uploader.attempt >= 1 /\ uploader.value \in DurableURLs
    /\ uploader.pc = "raised" =>
         uploader.attempt = StopAfterAttempt /\ uploader.value = NONE

\* C24: upload_audio_to_cloudinary_from_buffer makes at most 3 attempts,
\* returns the URL of the first attempt that does not raise and raises after
\* the third failure; the create, poll and callback handlers make each of
\* their calls once and never come back to one.
C24_AtMostThreeAttempts ==
    /\ []AttemptsBounded
    /\ [][AttemptsForward /\ HandlersForward]_vars

\* a call has raised after three failed attempts, while a poll that has made
\* its one upload is about to answer and a callback is about to store
C24_Witness ==
    /\ uploader.pc = "raised"
    /\ uploader.attempt = 3
    /\ At("respond") # {}
    /\ At("store") # {}

\* what poll_for_audio has returned is the audio_url of its last answer, the
\* first that was ready, or None after retries answers none of which was
PollReturned ==
    poller.pc = "returned" =>
        IF \E i \in 1..Len(poller.seen) : Ready(poller.seen[i])
        THEN /\ Ready(poller.seen[poller.attempt])
             /\ \A i \in 1..(poller.attempt - 1) : ~Ready(poller.seen[i])
             /\ poller.value = poller.seen[poller.attempt].audio_url
        ELSE /\ poller.attempt = poller.retries
             /\ poller.value = NONE

\* C25: poll_for_audio makes at most `retries` requests and ends: it returns
\* the URL of the first answer that is a 200 with an audio_url, and None
\* after `retries` answers that are not, network errors and other statuses
\* among them.
C25_PollForAudioTerminates ==
    /\ [](poller.attempt <= poller.retries /\ Len(poller.seen) = poller.attempt)
    /\ []PollReturned
    /\ (poller.pc = "calling") ~> (poller.pc = "returned")

\* a call has returned None after a network error, a 500 and an empty 200
C25_Witness ==
    /\ poller.pc = "returned"
    /\ poller.value = NONE
    /\ poller.attempt = 3
    /\ \E i \in 1..3 : poller.seen[i].net
    /\ \E i \in 1..3 : poller.seen[i].code = 500
    /\ \E i \in 1..3 : poller.seen[i] = PollAnswer(FALSE, 200, "")


\* the task id of every record, in the order of the table
TaskIds(rows) == [ i \in 1..Len(rows) |-> rows[i].task_id ]

\* handler h has taken the step
Took(h) == CopiesIn(h, handlers') < CopiesIn(h, handlers)

\* a poll or a callback for a task without a record changes nothing: the
\* callback is answered 404 and the poll no durable URL
NoRecordAnswers(task_id) ==
    RowsOf(songs, task_id) = {} =>
        /\ \A audio_url \in SunoURLs :
             LET o == receive_song(songs, task_id, audio_url)
             IN  o.songs = songs /\ o.pc = "idle" /\ o.response.code = 404
        /\ \A c \in CheckResults :
             LET o == check_status_route(songs, task_id, c)
             IN  /\ o.songs = songs /\ o.pc = "idle"
                 /\ o.response.code # 200 /\ ~Truthy(o.response.url)

NoRecordNoCompletion == \A task_id \in Tasks : NoRecordAnswers(task_id)

\* C26: no poll and no callback changes the task ids of the table: they
\* change only when a create handler inserts its Song; a task without a
\* record gets 404 from the callback and no durable URL from the poll, and
\* so cannot become completed.
C26_ReconcilerKeepsTaskIds ==
    /\ []NoRecordNoCompletion
    /\ [][ TaskIds(songs') # TaskIds(songs) =>
             \E h \in At("insert") :
                 /\ h.locals.op = "create"
                 /\ Took(h)
                 /\ songs' = InsertSong(songs, h.locals.task_id, h.locals.args) ]_vars

\* a task has no record while another Song is completed, a callback for a
\* known task is in flight, and a callback for the unknown one gets 404
C26_Witness ==
    \E task_id \in Tasks :
        /\ RowsOf(songs, task_id) = {}
        /\ \E i \in 1..Len(songs) : songs[i].status = "completed"
        /\ At("store") # {}
        /\ \A audio_url \in SunoURLs :
             receive_song(songs, task_id, audio_url).response.code = 404

\* C27: every Song is processing or completed, with retry_count 0 and no
\* error_message.
C27_StatusAndCounters ==
    \A i \in 1..Len(songs) :
        /\ songs[i].status \in {"processing", "completed"}
        /\ songs[i].retry_count = 0
        /\ songs[i].error_message = NONE

\* a poll's upload has failed and the Song records nothing of it, beside a
\* Song still processing
C27_Witness ==
    /\ \E i \in 1..Len(songs) :
         /\ songs[i].status = "completed"
         /\ songs[i].cloudinary_url = ""
         /\ songs[i].retry_count = 0
         /\ songs[i].error_message = NONE
    /\ \E i \in 1..Len(songs) : songs[i].status = "processing"

\* the columns a poll or a callback may write
ReconciledColumns == {"status", "suno_url", "cloudinary_url", "audio_url"}

\* C28: a record changes only in status, suno_url, cloudinary_url and
\* audio_url, only by the upload of a poll or the store of a callback for
\* its task, and no other record changes in that step.
C28_OnlyFourColumns ==
    [][ \A i \in 1..Len(songs) :
          songs'[i] # songs[i] =>
            /\ \A c \in DOMAIN songs[i] \ ReconciledColumns : songs'[i][c] = songs[i][c]
            /\ \A j \in 1..Len(songs) : j # i => songs'[j] = songs[j]
            /\ \E h \in At("upload") \cup At("store") :
                 /\ h.locals.op \in {"poll", "callback"}
                 /\ h.locals.task_id = songs[i].task_id
                 /\ Took(h) ]_vars

\* a callback has completed one Song, that keeps what it was created with,
\* while the other Song is as it was inserted
C28_Witness ==
    /\ Len(songs) = 2
    /\ \E i \in 1..2 :
         /\ songs[i].status = "completed"
         /\ Truthy(songs[i].cloudinary_url)
         /\ songs[i].title = "Dawn"
         /\ songs[3 - i] = Song(3 - i, songs[3 - i].task_id,
                                [ title |-> songs[3 - i].title, lyrics |-> songs[3 - i].lyrics,
                                  style |-> songs[3 - i].style, mood |-> songs[3 - i].mood,
                                  theme |-> songs[3 - i].theme ], "processing")

====
